---- MODULE Spec2Model ----
(***************************************************************************)
(* Model of the ranking agent: agent/tools/ranker.py (preference           *)
(* sanitization, _dirnorm, rank_from_csv) and the chat shell of            *)
(* agent/main.py (handle_input, _export_last_csv and the last-ranking      *)
(* cache).                                                                 *)
(*                                                                         *)
(* Numbers are exact rationals <<n, d>> with d > 0 in lowest terms; the    *)
(* pair <<0, 0>> is NaN (a missing entry).  Floating-point rounding and    *)
(* infinities are outside the model.                                       *)
(***************************************************************************)
EXTENDS Integers, Sequences, FiniteSets, TLC

\* ------------------------------------------------------------------ bounds

\* Largest raw attribute value of a table cell.
MaxVal == 1
\* Longest series handed to _dirnorm on its own.
MaxLen == 3
\* Most rows of a company table.
MaxRows == 3
\* Largest raw weight the oracle names.
MaxW == 2
\* Significant bits of the floating-point format of the sector transform
\* (binary64 has 53).
Precision == 3
\* Most rows of a sector handed to the sector transform on its own.
MaxGroup == 3

\* ------------------------------------------------------------- arithmetic

Abs(n) == IF n < 0 THEN -n ELSE n

RECURSIVE GCD(_, _)
GCD(a, b) == IF b = 0 THEN a ELSE GCD(b, a % b)

NaN == <<0, 0>>
IsNaN(q) == q[2] = 0

\* n/d in lowest terms with a positive denominator (d # 0).
Reduce(n, d, g) == IF d < 0 THEN <<(-n) \div g, (-d) \div g>>
                   ELSE <<n \div g, d \div g>>
Rat(n, d) == Reduce(n, d, GCD(Abs(n), Abs(d)))

Num(v) == <<v, 1>>
Zero == Num(0)
One == Num(1)
Half == <<1, 2>>

\* IEEE arithmetic on the modelled values: NaN propagates, x/0 is NaN only
\* where the code can reach it with 0/0 (never, see _dirnorm and ZScore).
RAdd(p, q) == IF IsNaN(p) \/ IsNaN(q) THEN NaN
              ELSE Rat(p[1] * q[2] + q[1] * p[2], p[2] * q[2])
RNeg(p) == IF IsNaN(p) THEN NaN ELSE <<-p[1], p[2]>>
RSub(p, q) == RAdd(p, RNeg(q))
RMul(p, q) == IF IsNaN(p) \/ IsNaN(q) THEN NaN
              ELSE Rat(p[1] * q[1], p[2] * q[2])
RDiv(p, q) == IF IsNaN(p) \/ IsNaN(q) \/ q[1] = 0 THEN NaN
              ELSE Rat(p[1] * q[2], p[2] * q[1])
\* Comparisons with NaN are false, as in IEEE.
RLt(p, q) == ~IsNaN(p) /\ ~IsNaN(q) /\ p[1] * q[2] < q[1] * p[2]
RLe(p, q) == ~IsNaN(p) /\ ~IsNaN(q) /\ p[1] * q[2] <= q[1] * p[2]

Range(s) == {s[i] : i \in 1..Len(s)}

RECURSIVE RSum(_)
RSum(s) == IF s = <<>> THEN Zero ELSE RAdd(Head(s), RSum(Tail(s)))

\* The non-NaN entries of a series, in order (pandas reductions skip NaN).
DropNa(s) == SelectSeq(s, LAMBDA q : ~IsNaN(q))

\* Insert q into the ascending sequence s, after every entry <= q.
RECURSIVE InsertAsc(_, _)
InsertAsc(s, q) ==
    IF s = <<>> THEN <<q>>
    ELSE IF RLt(q, Head(s)) THEN <<q>> \o s
    ELSE <<Head(s)>> \o InsertAsc(Tail(s), q)

RECURSIVE SortAsc(_)
SortAsc(s) == IF s = <<>> THEN <<>>
              ELSE InsertAsc(SortAsc(SubSeq(s, 1, Len(s) - 1)), s[Len(s)])

\* Series.median(): the middle of the sorted non-NaN entries, the mean of
\* the two middle ones for an even count, NaN for none.
Middle(v, n) ==
    IF n = 0 THEN NaN
    ELSE IF n % 2 = 1 THEN v[(n + 1) \div 2]
    ELSE RMul(Half, RAdd(v[n \div 2], v[n \div 2 + 1]))
Median(s) == Middle(SortAsc(DropNa(s)), Len(DropNa(s)))

\* np.nanmin / np.nanmax: NaN when every entry is NaN.
Least(v) == IF v = <<>> THEN NaN
            ELSE CHOOSE m \in Range(v) : \A q \in Range(v) : RLe(m, q)
Greatest(v) == IF v = <<>> THEN NaN
               ELSE CHOOSE m \in Range(v) : \A q \in Range(v) : RLe(q, m)
NanMin(s) == Least(DropNa(s))
NanMax(s) == Greatest(DropNa(s))

\* ---------------------------------------------------------------- _dirnorm

\* A cell of a raw column: a number <<n, d>>, a missing entry (NaN), or
\* text that does not parse as a number.
Unparseable == <<1, 0>>

\* pd.to_numeric(series, errors="coerce"): unparseable entries become NaN.
ToNumeric(series) ==
    [i \in 1..Len(series) |-> IF series[i][2] = 0 THEN NaN ELSE series[i]]

\* s.fillna(v): NaN entries replaced by v (a NaN v leaves them NaN).
FillNa(s, v) == [i \in 1..Len(s) |-> IF IsNaN(s[i]) THEN v ELSE s[i]]

\* s = s.fillna(s.median())
Impute(s) == FillNa(s, Median(s))

\* x = -s if direction == "negative" else s
Flip(s, direction) ==
    IF direction = "negative" THEN [i \in 1..Len(s) |-> RNeg(s[i])] ELSE s

\* Mutant: the constant guard dropped, the division done in every case.
MinMaxNoGuard(x, lo, hi) ==
    [i \in 1..Len(x) |-> RDiv(RSub(x[i], lo), RSub(hi, lo))]

\* The neutral 0.5 for a constant or all-missing column, else (x - lo)/(hi - lo).
MinMax(x, lo, hi) ==
    IF IsNaN(lo) \/ IsNaN(hi) \/ hi = lo
    THEN [i \in 1..Len(x) |-> Half]
    ELSE [i \in 1..Len(x) |-> RDiv(RSub(x[i], lo), RSub(hi, lo))]

Scale(x) == MinMax(x, NanMin(x), NanMax(x))

\* Mutant: the direction ignored.
DirnormNoFlip(series, direction) == Scale(Impute(ToNumeric(series)))

Dirnorm(series, direction) == Scale(Flip(Impute(ToNumeric(series)), direction))

\* ------------------------------------------------------------------ tables

\* A table is [cols |-> the column names in order, rows |-> the rows, each a
\* function from column name to cell]. The identifying columns hold text,
\* every other column of the modelled tables holds numbers (NaN = missing).
ID_COLS == {"ticker", "name", "sector"}

NoTable == [cols |-> <<>>, rows |-> <<>>]

HasCol(t, c) == c \in Range(t.cols)

Column(t, c) == [i \in 1..Len(t.rows) |-> t.rows[i][c]]

\* work[c] = series: an existing column is replaced in place, a new one is
\* appended as the last column.
SetColumn(t, c, series) ==
    [cols |-> IF HasCol(t, c) THEN t.cols ELSE Append(t.cols, c),
     rows |-> [i \in 1..Len(t.rows) |-> (c :> series[i]) @@ t.rows[i]]]

\* pd.api.types.is_numeric_dtype(df[c]) for the tables of the model: the
\* text columns are the identifying ones.
IsNumericDtype(df, c) == c \notin ID_COLS

\* numeric_cols of prefs_from_text_llm, in column order.
NumericCols(df) ==
    SelectSeq(df.cols, LAMBDA c : c \notin ID_COLS /\ IsNumericDtype(df, c))

\* ------------------------------------------------------ prefs_from_text_llm

\* The oracle's "preferences" object is a sequence (JSON object order) of
\* [col, isdict, weight, direction]: weight is a number, or Unparseable for
\* a value float() rejects; isdict is FALSE for a value that is no object.

\* str.lower() on the direction strings of the model.
Lower(d) == CASE d = "Negative" -> "negative"
              [] d = "POSITIVE" -> "positive"
              [] OTHER -> d

\* float(cfg.get("weight", 0.0)) with the except branch, then max(0.0, w).
CleanWeight(w) ==
    LET f == IF w[2] = 0 THEN Zero ELSE w
    IN  IF RLt(f, Zero) THEN Zero ELSE f

CleanDirection(d) ==
    IF Lower(d) \in {"positive", "negative"} THEN Lower(d) ELSE "positive"

\* Mutant: the column filter dropped, every named attribute survives.
SanitizeKeepAll(raw, df) ==
    LET kept == SelectSeq(raw, LAMBDA e : e.isdict)
    IN  [i \in 1..Len(kept) |->
            [col |-> kept[i].col,
             weight |-> CleanWeight(kept[i].weight),
             direction |-> CleanDirection(kept[i].direction)]]

\* The sanitizing loop: keeps only the numeric columns of the table.
Sanitize(raw, df) ==
    LET kept == SelectSeq(raw, LAMBDA e :
                    e.col \in Range(NumericCols(df)) /\ e.isdict)
    IN  [i \in 1..Len(kept) |->
            [col |-> kept[i].col,
             weight |-> CleanWeight(kept[i].weight),
             direction |-> CleanDirection(kept[i].direction)]]

Weights(prefs) == [i \in 1..Len(prefs) |-> prefs[i].weight]

\* Mutant: the weights are left as the oracle gave them.
NormalizeWeightsSkip(prefs) == prefs

\* total_w = sum(weights) or 1.0; every weight divided by total_w.
NormalizeWeights(prefs) ==
    LET total == RSum(Weights(prefs))
        total_w == IF total = Zero THEN One ELSE total
    IN  [i \in 1..Len(prefs) |->
            [prefs[i] EXCEPT !.weight = RDiv(prefs[i].weight, total_w)]]

\* -------------------------------------------------------------- json.loads

\* The oracle's response text is a sequence of lexemes: "{", "}", ":", ",",
\* string literals (with their quotes), number literals, "ws" (whitespace)
\* and "word" (prose, no JSON lexeme).
Names == {"preferences", "weight", "direction", "beta", "env_risk", "esg",
          "positive", "negative", "Negative", "high"}
Quote(name) == "\"" \o name \o "\""
StringToks == {Quote(name) : name \in Names}
Unquote(tok) == CHOOSE name \in Names : Quote(name) = tok
NumToks == {"0", "1", "2"}
NumValue(tok) == CASE tok = "0" -> Zero [] tok = "1" -> One [] tok = "2" -> Num(2)

\* JSON values: a string or number keeps its lexeme, an object its members
\* [key, val] in insertion order.
Scalar(kind, tok) == [kind |-> kind, text |-> tok, members |-> <<>>]
Object(members) == [kind |-> "obj", text |-> "", members |-> members]
NoValue == Scalar("none", "")

\* The outcome of a parse: a value and the lexemes left, or a failure.
Parsed(val, rest) == [ok |-> TRUE, val |-> val, rest |-> rest]
ParseError == [ok |-> FALSE, val |-> NoValue, rest |-> <<>>]

HasKey(obj, key) == \E i \in 1..Len(obj.members) : obj.members[i].key = key
Get(obj, key) ==
    obj.members[CHOOSE i \in 1..Len(obj.members) : obj.members[i].key = key].val

\* dict[key] = val: a repeated key keeps its place and takes the new value.
Put(members, key, val) ==
    IF \E i \in 1..Len(members) : members[i].key = key
    THEN [i \in 1..Len(members) |->
             IF members[i].key = key THEN [key |-> key, val |-> val]
             ELSE members[i]]
    ELSE Append(members, [key |-> key, val |-> val])

\* The JSON grammar of the model:
\*   value  := string | number | "{" "}" | "{" member ("," member)* "}"
\*   member := string ":" value
RECURSIVE ParseValue(_)
RECURSIVE ParseMembers(_, _)
RECURSIVE AfterMember(_, _, _)
ParseValue(toks) ==
    IF toks = <<>> THEN ParseError
    ELSE IF Head(toks) \in StringToks THEN Parsed(Scalar("str", Head(toks)), Tail(toks))
    ELSE IF Head(toks) \in NumToks THEN Parsed(Scalar("num", Head(toks)), Tail(toks))
    ELSE IF Head(toks) # "{" THEN ParseError
    ELSE IF Len(toks) >= 2 /\ toks[2] = "}"
    THEN Parsed(Object(<<>>), SubSeq(toks, 3, Len(toks)))
    ELSE ParseMembers(Tail(toks), <<>>)

ParseMembers(toks, acc) ==
    IF Len(toks) < 3 THEN ParseError
    ELSE IF toks[1] \notin StringToks \/ toks[2] # ":" THEN ParseError
    ELSE AfterMember(toks[1], ParseValue(SubSeq(toks, 3, Len(toks))), acc)

AfterMember(key, r, acc) ==
    IF ~r.ok \/ r.rest = <<>> THEN ParseError
    ELSE IF Head(r.rest) = "}"
    THEN Parsed(Object(Put(acc, key, r.val)), Tail(r.rest))
    ELSE IF Head(r.rest) = ","
    THEN ParseMembers(Tail(r.rest), Put(acc, key, r.val))
    ELSE ParseError

\* Whitespace between lexemes, and around the value, is skipped.
Lex(text) == SelectSeq(text, LAMBDA tok : tok # "ws")

\* The value must be the whole text: lexemes left over are "Extra data".
Complete(r) == IF r.ok /\ r.rest = <<>> THEN r ELSE ParseError

\* json.loads(text): [ok, val], ok = FALSE for a JSONDecodeError.
JsonLoads(text) == Complete(ParseValue(Lex(text)))

\* data.get("preferences", {}) if isinstance(data, dict) else {}
Preferences(data) ==
    IF data.kind = "obj" /\ HasKey(data, Quote("preferences"))
    THEN Get(data, Quote("preferences")) ELSE Object(<<>>)

\* cfg.get("weight", 0.0) as float() will see it: a number literal is its
\* value, a missing key is 0.0, anything else is rejected by float().
WeightOf(cfg) ==
    IF cfg.kind # "obj" \/ ~HasKey(cfg, Quote("weight")) THEN Zero
    ELSE IF Get(cfg, Quote("weight")).kind = "num"
    THEN NumValue(Get(cfg, Quote("weight")).text)
    ELSE Unparseable

\* str(cfg.get("direction", "positive"))
DirectionOf(cfg) ==
    IF cfg.kind # "obj" \/ ~HasKey(cfg, Quote("direction")) THEN "positive"
    ELSE IF Get(cfg, Quote("direction")).kind = "str"
    THEN Unquote(Get(cfg, Quote("direction")).text)
    ELSE Get(cfg, Quote("direction")).text

\* prefs.items() as the entries the sanitizing loop reads.
Entries(prefs) ==
    [i \in 1..Len(prefs.members) |->
        [col |-> Unquote(prefs.members[i].key),
         isdict |-> prefs.members[i].val.kind = "obj",
         weight |-> WeightOf(prefs.members[i].val),
         direction |-> DirectionOf(prefs.members[i].val)]]

\* --------------------------------------------------------- sector z-score

ISqrt(n) == CHOOSE k \in 0..n : k * k = n
IsSquare(n) == \E k \in 0..n : k * k = n
\* The square root of a rational whose root is rational.
RSqrt(q) == IF IsNaN(q) THEN NaN ELSE <<ISqrt(q[1]), ISqrt(q[2])>>

\* s.mean() and s.std(ddof=0): NaN entries skipped, NaN when none is left.
Average(v) == IF v = <<>> THEN NaN ELSE RDiv(RSum(v), Num(Len(v)))
Mean(s) == Average(DropNa(s))
MeanSquare(v, m) ==
    IF v = <<>> THEN NaN
    ELSE RDiv(RSum([i \in 1..Len(v) |-> RMul(RSub(v[i], m), RSub(v[i], m))]),
              Num(Len(v)))
Variance(s) == MeanSquare(DropNa(s), Mean(s))
Std(s) == RSqrt(Variance(s))

\* lambda s: (s - s.mean()) / (s.std(ddof=0) or 1.0); NaN is truthy, so a NaN
\* deviation stays the divisor.
Standardize(s, mean, sd) ==
    [i \in 1..Len(s) |-> RDiv(RSub(s[i], mean), IF sd = Zero THEN One ELSE sd)]
ZScore(s) == Standardize(s, Mean(s), Std(s))

\* work.groupby("sector")[col].transform(...): each row standardized within
\* the rows of its sector.
\* The rows of row i's sector, by index.
Members(work, i) ==
    SelectSeq([j \in 1..Len(work.rows) |-> j],
              LAMBDA j : work.rows[j]["sector"] = work.rows[i]["sector"])
GroupZ(work, col, members, i) ==
    ZScore([k \in 1..Len(members) |-> work.rows[members[k]][col]])
        [CHOOSE k \in 1..Len(members) : members[k] = i]
SectorZ(work, col) ==
    [i \in 1..Len(work.rows) |-> GroupZ(work, col, Members(work, i), i)]

\* ------------------------------------------- sector z-score, in floating point

\* Binary floating point with Precision significant bits, rounding to
\* nearest, ties to even; the exponent is unbounded (no overflow, no
\* underflow).  A float is the rational it stands for.
Pow2(k) == IF k >= 0 THEN <<2 ^ k, 1>> ELSE <<1, 2 ^ (-k)>>

\* The e with 2^(Precision-1) <= q / 2^e < 2^Precision, for q > 0.
RECURSIVE Exponent(_, _)
Exponent(q, e) ==
    IF RLe(Num(2 ^ Precision), RDiv(q, Pow2(e))) THEN Exponent(q, e + 1)
    ELSE IF RLt(RDiv(q, Pow2(e)), Num(2 ^ (Precision - 1))) THEN Exponent(q, e - 1)
    ELSE e

Floor(t) == t[1] \div t[2]

\* The integer nearest to t >= 0, m being its floor; a tie goes to the even one.
NearestEven(t, m) ==
    IF RLt(RSub(t, Num(m)), Half) THEN m
    ELSE IF RLt(Half, RSub(t, Num(m))) THEN m + 1
    ELSE IF m % 2 = 0 THEN m ELSE m + 1

RoundScaled(t, e) == RMul(Num(NearestEven(t, Floor(t))), Pow2(e))
RoundPos(q, e) == RoundScaled(RDiv(q, Pow2(e)), e)

\* The float nearest to the rational q: the rounding of every operation.
Round(q) ==
    IF IsNaN(q) THEN NaN
    ELSE IF q[1] = 0 THEN Zero
    ELSE IF q[1] < 0 THEN RNeg(RoundPos(RNeg(q), Exponent(RNeg(q), 0)))
    ELSE RoundPos(q, Exponent(q, 0))

FAdd(p, q) == Round(RAdd(p, q))
FSub(p, q) == Round(RSub(p, q))
FMul(p, q) == Round(RMul(p, q))
FDiv(p, q) == Round(RDiv(p, q))

\* The e with 4^(Precision-1) <= q / 4^e < 4^Precision, for q > 0.
RECURSIVE SqrtExponent(_, _)
SqrtExponent(q, e) ==
    IF RLe(Num(4 ^ Precision), RDiv(q, Pow2(2 * e))) THEN SqrtExponent(q, e + 1)
    ELSE IF RLt(RDiv(q, Pow2(2 * e)), Num(4 ^ (Precision - 1)))
    THEN SqrtExponent(q, e - 1)
    ELSE e

FloorSqrt(n) == CHOOSE k \in 0..n : k * k <= n /\ n < (k + 1) * (k + 1)

\* The integer nearest to the root of t, m being the root's floor: t is
\* compared with (m + 1/2)^2.
RootNearest(t, m) ==
    IF RLt(t, Rat((2 * m + 1) * (2 * m + 1), 4)) THEN m
    ELSE IF RLt(Rat((2 * m + 1) * (2 * m + 1), 4), t) THEN m + 1
    ELSE IF m % 2 = 0 THEN m ELSE m + 1

RootScaled(t, e) == RMul(Num(RootNearest(t, FloorSqrt(Floor(t)))), Pow2(e))

\* The correctly rounded square root of q >= 0.
FSqrt(q) ==
    IF IsNaN(q) THEN NaN
    ELSE IF q[1] = 0 THEN Zero
    ELSE RootScaled(RDiv(q, Pow2(2 * SqrtExponent(q, 0))), SqrtExponent(q, 0))

\* values.sum(): the entries added one after the other, each sum rounded.
RECURSIVE FSumFrom(_, _)
FSumFrom(acc, v) ==
    IF v = <<>> THEN acc ELSE FSumFrom(FAdd(acc, Head(v)), Tail(v))
FSum(v) == FSumFrom(Zero, v)

\* s.mean(): the sum of the non-NaN entries over their count.
FAverage(v) == IF v = <<>> THEN NaN ELSE FDiv(FSum(v), Num(Len(v)))
FMean(s) == FAverage(DropNa(s))

\* s.std(ddof=0): avg = sum / count, sqr = (avg - values) ** 2,
\* the root of sqr.sum() / count.
FSquares(v, avg) ==
    [i \in 1..Len(v) |-> FMul(FSub(avg, v[i]), FSub(avg, v[i]))]
FVariance(v, avg) ==
    IF v = <<>> THEN NaN ELSE FDiv(FSum(FSquares(v, avg)), Num(Len(v)))
FStd(s) == FSqrt(FVariance(DropNa(s), FMean(s)))

\* lambda s: (s - s.mean()) / (s.std(ddof=0) or 1.0), every operation rounded.
FStandardize(s, mean, sd) ==
    [i \in 1..Len(s) |-> FDiv(FSub(s[i], mean), IF sd = Zero THEN One ELSE sd)]
FZScore(s) == FStandardize(s, FMean(s), FStd(s))

\* ------------------------------------------------------------ rank_from_csv

\* Mutant: dense ranking (method="dense").
RankMinDense(scores) ==
    LET asc == SortAsc(scores)
        n == Len(scores)
        desc == [p \in 1..n |-> asc[n + 1 - p]]
        distinct == {desc[p] : p \in 1..n}
    IN  [i \in 1..n |-> Cardinality({v \in distinct : RLt(scores[i], v)}) + 1]

\* Series.rank(ascending=False, method="min").astype(int): the values are
\* sorted, best first, and a value's rank is the first position of its group
\* of ties.
RankMin(scores) ==
    LET asc == SortAsc(scores)
        n == Len(scores)
        desc == [p \in 1..n |-> asc[n + 1 - p]]
    IN  [i \in 1..n |->
            CHOOSE p \in 1..n : /\ desc[p] = scores[i]
                                /\ \A r \in 1..(p - 1) : desc[r] # scores[i]]

\* Row a sorts strictly before row b under sort_values(["rank","score_total"]),
\* both keys ascending.
KeyLess(a, b) ==
    \/ a["rank"] < b["rank"]
    \/ a["rank"] = b["rank"] /\ RLt(a["score_total"], b["score_total"])

\* Mutant: an unstable insertion, a row goes before the rows it ties with.
RECURSIVE InsertRowBeforeTies(_, _)
InsertRowBeforeTies(rows, r) ==
    IF rows = <<>> THEN <<r>>
    ELSE IF ~KeyLess(Head(rows), r) THEN <<r>> \o rows
    ELSE <<Head(rows)>> \o InsertRowBeforeTies(Tail(rows), r)

\* Stable insertion of row r: after every row that does not sort after it.
RECURSIVE InsertRow(_, _)
InsertRow(rows, r) ==
    IF rows = <<>> THEN <<r>>
    ELSE IF KeyLess(r, Head(rows)) THEN <<r>> \o rows
    ELSE <<Head(rows)>> \o InsertRow(Tail(rows), r)

\* sort_values on several keys is a stable lexicographic sort.
RECURSIVE SortRows(_)
SortRows(rows) ==
    IF rows = <<>> THEN <<>>
    ELSE InsertRow(SortRows(SubSeq(rows, 1, Len(rows) - 1)), rows[Len(rows)])

\* The sector-neutralizing loop: mapped[col] and the z columns added to work.
RECURSIVE Neutralize(_, _)
Neutralize(work, cols) ==
    IF cols = <<>> THEN work
    ELSE LET col == Head(cols)
         IN  IF HasCol(work, col)
             THEN Neutralize(SetColumn(work, col \o "__sector_z", SectorZ(work, col)),
                             Tail(cols))
             ELSE Neutralize(work, Tail(cols))

PrefCols(prefs) == [i \in 1..Len(prefs) |-> prefs[i].col]

\* mapped[col]: the z column when the attribute was neutralized.
Mapped(work, col, neutral) ==
    IF neutral /\ HasCol(work, col) THEN col \o "__sector_z" ELSE col

\* total = comp * weight if total is None else total + comp * weight
Accumulate(total, comp, weight) ==
    IF total = <<>> THEN [i \in 1..Len(comp) |-> RMul(comp[i], weight)]
    ELSE [i \in 1..Len(comp) |-> RAdd(total[i], RMul(comp[i], weight))]

\* One attribute scored: its component column added to work, its weighted
\* component to total.
AddComponent(acc, cfg, comp) ==
    [work |-> SetColumn(acc.work, "score__" \o cfg.col, comp),
     comp_cols |-> Append(acc.comp_cols, "score__" \o cfg.col),
     total |-> Accumulate(acc.total, comp, cfg.weight)]

\* The body of the scoring loop for one attribute: skipped when its source
\* column is not in work.
ScoreOne(acc, cfg, src) ==
    IF ~HasCol(acc.work, src) THEN acc
    ELSE AddComponent(acc, cfg, Dirnorm(Column(acc.work, src), cfg.direction))

\* The scoring loop over prefs.items(): acc is [work, comp_cols, total];
\* total = <<>> stands for None.
RECURSIVE ScoreLoop(_, _, _)
ScoreLoop(acc, prefs, neutral) ==
    IF prefs = <<>> THEN acc
    ELSE ScoreLoop(ScoreOne(acc, Head(prefs),
                            Mapped(acc.work, Head(prefs).col, neutral)),
                   Tail(prefs), neutral)

\* Mutant: the component columns are left among the remaining columns.
FrontColsPlain(work, comp_cols) ==
    SelectSeq(<<"rank", "ticker", "name">>
              \o (IF HasCol(work, "sector") THEN <<"sector">> ELSE <<>>)
              \o <<"score_total">>,
              LAMBDA c : HasCol(work, c))

\* front: the leading columns, those work has, the component columns last.
FrontCols(work, comp_cols) ==
    SelectSeq(<<"rank", "ticker", "name">>
              \o (IF HasCol(work, "sector") THEN <<"sector">> ELSE <<>>)
              \o <<"score_total">> \o comp_cols,
              LAMBDA c : HasCol(work, c))

\* front + [c for c in ordered.columns if c not in front]
OutputCols(work, comp_cols) ==
    LET front == FrontCols(work, comp_cols)
    IN  front \o SelectSeq(work.cols, LAMBDA c : c \notin Range(front))

\* DataFrame.head(n) for n >= 0.
HeadRows(t, n) ==
    [cols |-> t.cols,
     rows |-> SubSeq(t.rows, 1, IF n < Len(t.rows) THEN n ELSE Len(t.rows))]

\* DataFrame.to_csv(path, index=False): a header line and one line per row,
\* the cells in column order; a missing value is written as an empty field,
\* which reads back as missing.
ToCsv(t) ==
    [header |-> t.cols,
     lines |-> [i \in 1..Len(t.rows) |->
                   [k \in 1..Len(t.cols) |-> t.rows[i][t.cols[k]]]]]

NoFile == [header |-> <<>>, lines |-> <<>>]

\* Mutant: the emptiness check never fires.
IsEmptySpecNever(prefs) == FALSE

\* "if not prefs": the sanitized spec names no attribute.
IsEmptySpec(prefs) == prefs = <<>>

Failed(status) == [status |-> status, ordered |-> NoTable, prefs |-> <<>>]

\* work["score_total"] = total if total is not None else 0.0
ScoreTotal(acc) ==
    IF acc.total = <<>> THEN [i \in 1..Len(acc.work.rows) |-> Zero] ELSE acc.total

\* work["rank"] = work["score_total"].rank(ascending=False, method="min")
WithRank(work) == SetColumn(work, "rank", RankMin(Column(work, "score_total")))

\* ordered = work.sort_values(...)[front + rest]
Ordered(work, comp_cols) ==
    [cols |-> OutputCols(work, comp_cols), rows |-> SortRows(work.rows)]

\* The table after the scoring loop: score_total, rank, sort, column order.
Finish(acc) ==
    Ordered(WithRank(SetColumn(acc.work, "score_total", ScoreTotal(acc))),
            acc.comp_cols)

\* work with the z columns when sector_neutral holds and the table has
\* sectors, then the scoring loop.
Scored(df, prefs, sn) ==
    ScoreLoop([work |-> IF sn THEN Neutralize(df, PrefCols(prefs)) ELSE df,
               comp_cols |-> <<>>, total |-> <<>>],
              prefs, sn)

\* rank_from_csv from the weight normalization on.
RankPrefs(df, prefs, neutral) ==
    [status |-> "ok",
     ordered |-> Finish(Scored(df, prefs, neutral /\ HasCol(df, "sector"))),
     prefs |-> prefs]

\* rank_from_csv after prefs_from_text_llm has returned clean.
RankClean(df, clean, neutral) ==
    IF IsEmptySpec(clean) THEN Failed("RuntimeError")
    ELSE RankPrefs(df, NormalizeWeights(clean), neutral)

\* The whole of rank_from_csv but its effects: [status, ordered, prefs].
\* raw is the oracle's preferences object.
RankCore(df, raw, neutral) ==
    IF ~HasCol(df, "ticker") \/ ~HasCol(df, "name") THEN Failed("ValueError")
    ELSE RankClean(df, Sanitize(raw, df), neutral)

\* prefs_from_text_llm from the "preferences" value on, then the rest of
\* rank_from_csv: prefs.items() needs an object.
RankItems(df, prefs, neutral) ==
    IF prefs.kind # "obj" THEN Failed("AttributeError")
    ELSE RankCore(df, Entries(prefs), neutral)

\* prefs_from_text_llm from the result of json.loads on: a JSONDecodeError
\* is not caught.
RankParsed(df, parsed, neutral) ==
    IF ~parsed.ok THEN Failed("JSONDecodeError")
    ELSE RankItems(df, Preferences(parsed.val), neutral)

\* rank_from_csv when the oracle's response text is text.
RankText(df, text, neutral) ==
    IF ~HasCol(df, "ticker") \/ ~HasCol(df, "name") THEN Failed("ValueError")
    ELSE RankParsed(df, JsonLoads(text), neutral)

\* The entries the sanitizing loop is given for text, none when it is not
\* reached.
RawOf(parsed) ==
    IF parsed.ok /\ Preferences(parsed.val).kind = "obj"
    THEN Entries(Preferences(parsed.val)) ELSE <<>>

\* ------------------------------------------------------------------- inputs

\* The cells of a numeric column of the company table.
Cells == {Num(v) : v \in 0..MaxVal} \cup {NaN}

Tickers == [i \in 1..(MaxRows + 1) |-> <<"AAA", "BBB", "CCC", "DDD", "EEE">>[i]]

\* The company tables of the model: ticker and name, an optional sector
\* column (the first two companies in one sector, the others in another),
\* and the numeric attributes beta and env_risk.
MkTable(n, hasSector, beta, env) ==
    [cols |-> <<"ticker", "name">>
              \o (IF hasSector THEN <<"sector">> ELSE <<>>)
              \o <<"beta", "env_risk">>,
     rows |-> [i \in 1..n |->
                 [c \in {"ticker", "name", "beta", "env_risk"}
                        \cup (IF hasSector THEN {"sector"} ELSE {}) |->
                    CASE c = "ticker" -> Tickers[i]
                      [] c = "name" -> "Co " \o Tickers[i]
                      [] c = "sector" -> IF i <= 2 THEN "Tech" ELSE "Util"
                      [] c = "beta" -> beta[i]
                      [] c = "env_risk" -> env[i]]]]

\* Every sector's deviation of every attribute is rational, so that the
\* z-scores are exact in the model.
RationalStd(t) ==
    HasCol(t, "sector") =>
        \A c \in {"beta", "env_risk"} : \A g \in {"Tech", "Util"} :
            LET members == SelectSeq(t.rows, LAMBDA r : r["sector"] = g)
                v == Variance([k \in 1..Len(members) |-> members[k][c]])
            IN  IsNaN(v) \/ (IsSquare(v[1]) /\ IsSquare(v[2]))

\* env_risk alternates 1, 0, 1, ... down the table.
EnvColumn(n) == [i \in 1..n |-> Num(i % 2)]

Tables ==
    {t \in UNION {
        {MkTable(n, hs, beta, EnvColumn(n)) :
            hs \in BOOLEAN, beta \in [1..n -> Cells]} : n \in 2..MaxRows} :
        RationalStd(t)}

\* The tables of the chat sessions: three companies with a sector.
ShellTables ==
    {MkTable(3, TRUE, beta, EnvColumn(3)) : beta \in [1..3 -> {Num(0), Num(1)}]}

\* The oracle's answers: "esg" names no column of the table; a negative
\* weight is clamped; up to two preferences on distinct columns.
RawCols == {"beta", "env_risk", "esg"}
RawWeights == {Num(w) : w \in (-1)..MaxW}
RawDirections == {"positive", "Negative"}
RawEntries ==
    [col : RawCols, isdict : {TRUE}, weight : RawWeights,
     direction : RawDirections]
\* The second preference of a two-entry answer: a plain one, one with a
\* malformed weight and an unknown direction, one whose value is no object.
SecondEntries ==
    {[col |-> "env_risk", isdict |-> TRUE, weight |-> One,
      direction |-> "positive"],
     [col |-> "beta", isdict |-> TRUE, weight |-> Unparseable,
      direction |-> "lower"],
     [col |-> "env_risk", isdict |-> FALSE, weight |-> One,
      direction |-> "negative"]}

RawPrefs ==
    {<<>>} \cup {<<e>> : e \in RawEntries}
           \cup {p \in {<<e, f>> : e \in RawEntries, f \in SecondEntries} :
                    p[1].col # p[2].col}

\* The top_n of a call: fewer rows than any table has, and as many as the
\* largest table has.
TopNs == {1, MaxRows}

\* What the oracle answers in a chat session.
ShellPrefs ==
    {<<>>,
     <<[col |-> "beta", isdict |-> TRUE, weight |-> One, direction |-> "negative"]>>,
     <<[col |-> "env_risk", isdict |-> TRUE, weight |-> One, direction |-> "positive"]>>,
     <<[col |-> "esg", isdict |-> TRUE, weight |-> One, direction |-> "negative"]>>}

\* The values of TOP_N in the environment: the default and an override.
TopNEnv == {2, 15}

\* -------------------------------------------------------------------- state

VARIABLES
    df,             \* the company table read from the CSV
    pc,             \* "idle", "returned" (a library call), "shell", "crashed"
    call,           \* the arguments of the rank_from_csv call
    ret,            \* what rank_from_csv returned or raised
    written,        \* the file at out_path
    TOP_N_DEFAULT,  \* main.py's TOP_N_DEFAULT
    LAST_RANKED,    \* _LAST_RANKED: <<>> is None, <<table>> a table
    LAST_SPEC,      \* _LAST_SPEC: <<>> is None, <<spec>> a spec
    LAST_TOPN,      \* _LAST_TOPN: <<>> is None, <<n>> a number
    exported,       \* the file _export_last_csv wrote last: [name, content]
    response,       \* what handle_input returned last: [kind, view]
    shown,          \* history: the view of the latest ranking response
    fresh,          \* history: no list request arrived since that response
    series,         \* the column handed to _dirnorm
    normed,         \* its normalization, per direction (<<>> before the call)
    group,          \* one sector's values of an attribute, as floats
    zs,             \* their standardized values (<<>> before the transform)
    content         \* the oracle's response text, a sequence of lexemes

vars == <<df, pc, call, ret, written, TOP_N_DEFAULT, LAST_RANKED, LAST_SPEC,
          LAST_TOPN, exported, response, shown, fresh, series, normed,
          group, zs, content>>

libVars == <<call, ret, written>>
shellVars == <<LAST_RANKED, LAST_SPEC, LAST_TOPN, exported, response, shown, fresh>>
normVars == <<series, normed>>
zVars == <<group, zs>>

NoCall == [raw |-> <<>>, top_n |-> 0, neutral |-> FALSE, out_path |-> ""]
NoRet == [status |-> "none", table |-> NoTable, prefs |-> <<>>]
NoExport == [name |-> [top |-> 0, slug |-> <<>>], content |-> NoFile]
NoResponse == [kind |-> "none", view |-> NoTable]

InitCommon ==
    /\ pc = "idle"
    /\ call = NoCall
    /\ ret = NoRet
    /\ written = NoFile
    /\ LAST_RANKED = <<>>
    /\ LAST_SPEC = <<>>
    /\ LAST_TOPN = <<>>
    /\ exported = NoExport
    /\ response = NoResponse
    /\ shown = <<>>
    /\ fresh = TRUE
    /\ normed = [positive |-> <<>>, negative |-> <<>>]
    /\ zs = <<>>

\* ------------------------------------------------------ rank_from_csv (call)

\* What the caller gets: the tuple returned, or the exception raised.
Returned(r, top_n) ==
    IF r.status = "ok"
    THEN [status |-> "ok", table |-> HeadRows(r.ordered, top_n), prefs |-> r.prefs]
    ELSE [status |-> r.status, table |-> NoTable, prefs |-> <<>>]

\* The effects of a call whose computation is r: the return value and the
\* file at out_path.
CallEffects(r, raw, top_n, neutral, out_path) ==
    /\ call' = [raw |-> raw, top_n |-> top_n, neutral |-> neutral,
                out_path |-> out_path]
    /\ ret' = Returned(r, top_n)
    /\ written' = IF ret'.status = "ok" /\ out_path # ""
                  THEN ToCsv(r.ordered) ELSE written

\* A call rank_from_csv(csv_path, user_text, top_n, sector_neutral, out_path)
\* on the table df, the oracle answering raw.  out_path = "" stands for None.
RankFromCsv ==
    /\ pc = "idle"
    /\ \E raw \in RawPrefs, neutral \in BOOLEAN, top_n \in TopNs,
          out_path \in {"", "ranked.csv"} :
         CallEffects(RankCore(df, raw, neutral), raw, top_n, neutral, out_path)
    /\ pc' = "returned"
    /\ UNCHANGED <<df, TOP_N_DEFAULT, shellVars, normVars, zVars, content>>

\* ------------------------------------------------------------ the chat shell

\* rank_from_csv is asked for at least this many rows by handle_input.
FETCH_MIN == 100

Max(a, b) == IF a < b THEN b ELSE a
Min(a, b) == IF a < b THEN a ELSE b

\* The columns shown and exported, those the table has.
DisplayCols(t) ==
    SelectSeq(<<"rank", "ticker", "name", "sector", "score_total">>,
              LAMBDA c : HasCol(t, c))

\* ranked_df.head(top_n)[cols]
Project(t, cols) ==
    [cols |-> cols,
     rows |-> [i \in 1..Len(t.rows) |-> [c \in Range(cols) |-> t.rows[i][c]]]]
View(t, top_n) == Project(HeadRows(t, top_n), DisplayCols(t))

\* _criteria_slug: one "<col>-<pos|neg|dir>" part per attribute of the spec.
CriteriaSlug(spec) ==
    [k \in 1..Len(spec) |->
        <<spec[k].col,
          IF spec[k].direction \in {"higher", "high", "positive", "pos"} THEN "pos"
          ELSE IF spec[k].direction \in {"lower", "low", "negative", "neg"} THEN "neg"
          ELSE "dir">>]

\* view.to_csv(out_path) under the name top<count>_<slug>.csv
SaveView(view) ==
    /\ exported' = [name |-> [top |-> Min(LAST_TOPN[1], Len(view.rows)),
                              slug |-> CriteriaSlug(LAST_SPEC[1])],
                    content |-> ToCsv(view)]
    /\ response' = [kind |-> "saved", view |-> NoTable]

\* _export_last_csv(): the file written and the answer.
ExportLastCsv ==
    IF LAST_RANKED = <<>> \/ LAST_SPEC = <<>> \/ LAST_TOPN = <<>>
    THEN /\ response' = [kind |-> "no_recent", view |-> NoTable]
         /\ exported' = exported
    ELSE SaveView(View(LAST_RANKED[1], LAST_TOPN[1]))

\* The ranking stored in the cache and shown.
StoreAndShow(view) ==
    /\ LAST_RANKED' = <<ret'.table>>
    /\ LAST_SPEC' = <<ret'.prefs>>
    /\ LAST_TOPN' = <<TOP_N_DEFAULT>>
    /\ response' = [kind |-> "ranking", view |-> view]
    /\ shown' = <<view>>
    /\ fresh' = TRUE
    /\ pc' = "shell"
    /\ UNCHANGED exported

\* The list branch of handle_input: the call of rank_from_csv, then the
\* cache and the answer; an exception leaves handle_input and ends run().
RankRequest(raw, top_n) ==
    /\ CallEffects(RankCore(df, raw, TRUE), raw, top_n, TRUE, "")
    /\ IF ret'.status = "ok"
       THEN StoreAndShow(View(ret'.table, TOP_N_DEFAULT))
       ELSE /\ response' = [kind |-> "raised", view |-> NoTable]
            /\ fresh' = FALSE
            /\ pc' = "crashed"
            /\ UNCHANGED <<LAST_RANKED, LAST_SPEC, LAST_TOPN, exported, shown>>

\* handle_input(user_input) in the loop of run().  affirm: is_affirmative
\* matches the input; list: is_asking_for_list classifies it as a list
\* request; raw: the oracle's preferences for it; ticker: extract_ticker
\* finds a ticker; finance: is_finance_related matches.
HandleInput(affirm, list, raw, ticker, finance) ==
    /\ pc \in {"idle", "shell"}
    /\ UNCHANGED <<df, TOP_N_DEFAULT, normVars, zVars, content>>
    /\ IF affirm /\ LAST_RANKED # <<>>
       THEN /\ ExportLastCsv
            /\ pc' = "shell"
            /\ fresh' = (fresh /\ ~list)
            /\ UNCHANGED <<libVars, LAST_RANKED, LAST_SPEC, LAST_TOPN, shown>>
       ELSE IF list
       THEN RankRequest(raw, Max(TOP_N_DEFAULT, FETCH_MIN))
       ELSE /\ response' = [kind |-> IF ticker THEN "summary"
                                     ELSE IF finance THEN "answer"
                                     ELSE "refusal",
                            view |-> NoTable]
            /\ pc' = "shell"
            /\ UNCHANGED <<libVars, LAST_RANKED, LAST_SPEC, LAST_TOPN,
                           exported, shown, fresh>>

InitShell ==
    /\ InitCommon
    /\ group = <<>>
    /\ content = <<>>
    /\ df \in ShellTables
    /\ TOP_N_DEFAULT \in TopNEnv
    /\ series = <<>>

NextShell ==
    \/ RankFromCsv
    \/ \E affirm, list, ticker, finance \in BOOLEAN, raw \in ShellPrefs :
          HandleInput(affirm, list, raw, ticker, finance)

SpecShell == InitShell /\ [][NextShell]_vars

\* ------------------------------------------------------------ _dirnorm (call)

\* The columns handed to _dirnorm on its own: numbers, missing entries and
\* text that does not parse.
SeriesSet ==
    UNION {[1..n -> {Num(v) : v \in 0..MaxVal} \cup {NaN, Unparseable}] :
           n \in 1..MaxLen}

NormalizePositive ==
    /\ normed.positive = <<>>
    /\ normed' = [normed EXCEPT !.positive = Dirnorm(series, "positive")]
    /\ UNCHANGED <<df, pc, TOP_N_DEFAULT, libVars, shellVars, series, zVars, content>>

NormalizeNegative ==
    /\ normed.negative = <<>>
    /\ normed' = [normed EXCEPT !.negative = Dirnorm(series, "negative")]
    /\ UNCHANGED <<df, pc, TOP_N_DEFAULT, libVars, shellVars, series, zVars, content>>

InitNorm ==
    /\ InitCommon
    /\ group = <<>>
    /\ content = <<>>
    /\ df = NoTable
    /\ TOP_N_DEFAULT = 15
    /\ series \in SeriesSet

NextNorm == NormalizePositive \/ NormalizeNegative

SpecNorm == InitNorm /\ [][NextNorm]_vars

\* ------------------------------------------------- sector transform (call)

\* The floats of the model: the integers of at most Precision bits, and NaN.
FloatCells == {Num(v) : v \in 0..(2 ^ Precision - 1)} \cup {NaN}

\* The values of an attribute in the rows of one sector.
GroupSet == UNION {[1..n -> FloatCells] : n \in 1..MaxGroup}

\* The function groupby("sector")[col].transform applies to one sector.
SectorTransform ==
    /\ zs = <<>>
    /\ zs' = FZScore(group)
    /\ UNCHANGED <<df, pc, TOP_N_DEFAULT, libVars, shellVars, normVars, group, content>>

InitZ ==
    /\ InitCommon
    /\ df = NoTable
    /\ TOP_N_DEFAULT = 15
    /\ series = <<>>
    /\ group \in GroupSet
    /\ content = <<>>

NextZ == SectorTransform

SpecZ == InitZ /\ [][NextZ]_vars

\* ------------------------------------------------ rank_from_csv on a text

\* The lexeme of a weight: a number literal, or a string literal for a
\* weight float() rejects.
WeightLex(w) == CASE w = Zero -> "0" [] w = One -> "1" [] w = Num(2) -> "2"
                  [] OTHER -> Quote("high")

\* One member of the preferences object as the oracle writes it.
RenderMember(e) ==
    <<Quote(e.col), ":">>
    \o (IF e.isdict
        THEN <<"{", Quote("weight"), ":", WeightLex(e.weight), ",",
               Quote("direction"), ":", Quote(e.direction), "}">>
        ELSE <<"1">>)

RECURSIVE RenderMembers(_)
RenderMembers(raw) ==
    IF raw = <<>> THEN <<>>
    ELSE IF Len(raw) = 1 THEN RenderMember(raw[1])
    ELSE RenderMember(raw[1]) \o <<",">> \o RenderMembers(Tail(raw))

\* {"preferences": {...}}, the response the prompt asks for.
RenderObject(raw) ==
    <<"{", Quote("preferences"), ":", "{">> \o RenderMembers(raw) \o <<"}", "}">>

\* The preferences the oracle writes.
OraclePrefs ==
    {<<>>,
     <<[col |-> "beta", isdict |-> TRUE, weight |-> One, direction |-> "negative"]>>,
     <<[col |-> "env_risk", isdict |-> TRUE, weight |-> Num(2), direction |-> "Negative"],
       [col |-> "beta", isdict |-> TRUE, weight |-> One, direction |-> "positive"]>>,
     <<[col |-> "esg", isdict |-> TRUE, weight |-> One, direction |-> "positive"]>>,
     <<[col |-> "beta", isdict |-> TRUE, weight |-> Unparseable, direction |-> "high"],
       [col |-> "env_risk", isdict |-> TRUE, weight |-> One, direction |-> "positive"]>>,
     <<[col |-> "beta", isdict |-> FALSE, weight |-> Zero, direction |-> "positive"],
       [col |-> "env_risk", isdict |-> TRUE, weight |-> One, direction |-> "negative"]>>}

\* Well-formed objects: the preferences objects, an object without the
\* "preferences" key, and one whose "preferences" is no object.
Bodies ==
    {RenderObject(raw) : raw \in OraclePrefs}
    \cup {<<"{", "}">>, <<"{", Quote("preferences"), ":", "1", "}">>}

\* What the oracle may put before and after the object.
Prefixes == {<<>>, <<"ws">>, <<"word", "ws">>, <<"word", ":", "ws">>}
Suffixes == {<<>>, <<"ws">>, <<"ws", "word">>, <<"word", "}">>}

\* Responses that hold no well-formed object.
Malformed ==
    {<<>>, <<"word">>, <<"{">>, <<"{", Quote("preferences"), ":", "{", "}">>}
    \cup {SubSeq(b, 1, Len(b) - 1) : b \in Bodies}

Texts == {p \o b \o s : p \in Prefixes, b \in Bodies, s \in Suffixes} \cup Malformed

\* A call rank_from_csv(csv_path, user_text, sector_neutral=...) on the
\* table df, the oracle answering with the text content.
RankFromText ==
    /\ pc = "idle"
    /\ \E neutral \in BOOLEAN :
         CallEffects(RankText(df, content, neutral), RawOf(JsonLoads(content)),
                     MaxRows, neutral, "")
    /\ pc' = "returned"
    /\ UNCHANGED <<df, TOP_N_DEFAULT, shellVars, normVars, zVars, content>>

InitOracle ==
    /\ InitCommon
    /\ df \in ShellTables
    /\ TOP_N_DEFAULT = 15
    /\ series = <<>>
    /\ group = <<>>
    /\ content \in Texts

NextOracle == RankFromText

SpecOracle == InitOracle /\ [][NextOracle]_vars

\* ------------------------------------------------------------ specifications

Init ==
    /\ InitCommon
    /\ group = <<>>
    /\ content = <<>>
    /\ df \in Tables
    /\ TOP_N_DEFAULT = 15
    /\ series = <<>>

Next == RankFromCsv

Spec == Init /\ [][Next]_vars

\* ------------------------------------------------------------------ claims

Ok == pc = "returned" /\ ret.status = "ok"
Rows == ret.table.rows
Score(i) == Rows[i]["score_total"]

\* The columns the call adds, named from the returned spec.
CompColsOf(prefs) == [k \in 1..Len(prefs) |-> "score__" \o prefs[k].col]
ZColsOf(prefs) ==
    IF call.neutral /\ HasCol(df, "sector")
    THEN [k \in 1..Len(prefs) |-> prefs[k].col \o "__sector_z"] ELSE <<>>
Front5 ==
    <<"rank", "ticker", "name">>
    \o (IF HasCol(df, "sector") THEN <<"sector">> ELSE <<>>) \o <<"score_total">>

\* The position of a company in the input table.
InputIndex(ticker) == CHOOSE i \in 1..Len(df.rows) : df.rows[i]["ticker"] = ticker

\* The weighted sum of the returned component columns, with the returned
\* weights.
WeightedSum(row, prefs) ==
    RSum([k \in 1..Len(prefs) |->
            RMul(prefs[k].weight, row["score__" \o prefs[k].col])])

\* C1: in the table rank_from_csv returns, every row's rank is the number of
\* rows with a strictly greater score_total plus one; so rows with equal
\* score_total share their rank and the first row has rank 1.
C1_CompetitionRank ==
    Ok => /\ \A i \in 1..Len(Rows) :
               Rows[i]["rank"] =
                 Cardinality({j \in 1..Len(Rows) : RLt(Score(i), Score(j))}) + 1
          /\ \A i, j \in 1..Len(Rows) :
               Score(i) = Score(j) => Rows[i]["rank"] = Rows[j]["rank"]
          /\ Rows[1]["rank"] = 1

\* Two companies tie for rank 1 and the third one has rank 3.
C1_Witness ==
    /\ Ok /\ Len(Rows) = 3
    /\ Rows[1]["rank"] = 1 /\ Rows[2]["rank"] = 1 /\ Rows[3]["rank"] = 3
    /\ Score(1) = Score(2) /\ RLt(Score(3), Score(2))

\* C2: the returned rows are ordered by rank ascending, then score_total
\* descending (score_total never increases down the table), and rows with
\* equal score_total keep the relative order they have in the input table.
C2_OrderAndStability ==
    Ok => \A i, j \in 1..Len(Rows) : i < j =>
            /\ Rows[i]["rank"] <= Rows[j]["rank"]
            /\ RLe(Score(j), Score(i))
            /\ Score(i) = Score(j) =>
                 InputIndex(Rows[i]["ticker"]) < InputIndex(Rows[j]["ticker"])

\* The last input row ranks first and the two first input rows tie behind it.
C2_Witness ==
    /\ Ok /\ Len(Rows) = 3
    /\ Rows[1]["ticker"] = "CCC" /\ Rows[2]["ticker"] = "AAA"
    /\ Rows[3]["ticker"] = "BBB"
    /\ Score(2) = Score(3) /\ RLt(Score(2), Score(1))

\* C3 as stated: whenever the spec survives sanitization and the emptiness
\* check, the returned weights sum to 1.
C3_Original ==
    Ok => RSum(Weights(ret.prefs)) = One

\* C3 amended: when at least one surviving weight is strictly positive, the
\* returned weights sum to 1 and score_total is the sum of the component
\* columns weighted by them; when every surviving weight is 0, the weights
\* stay 0.
C3_NormalizedWeights ==
    Ok => /\ (\E k \in 1..Len(ret.prefs) : RLt(Zero, ret.prefs[k].weight))
               => RSum(Weights(ret.prefs)) = One
          /\ (\A e \in Range(Sanitize(call.raw, df)) : e.weight = Zero)
               => \A k \in 1..Len(ret.prefs) : ret.prefs[k].weight = Zero
          /\ \A i \in 1..Len(Rows) : Score(i) = WeightedSum(Rows[i], ret.prefs)

\* Raw weights 2 and 1 come back as 2/3 and 1/3.
C3_Witness ==
    /\ Ok /\ Len(ret.prefs) = 2
    /\ call.raw[1].weight = Num(2) /\ call.raw[2].weight = One
    /\ ret.prefs[1].weight = <<2, 3>> /\ ret.prefs[2].weight = <<1, 3>>

\* C4: with an export destination, the table written to it is the bounded
\* view the call returns (same rows, order, columns and values).
C4_ExportIsView ==
    (Ok /\ call.out_path # "") => written = ToCsv(ret.table)

\* C5 as stated: an export writes the table of the most recent input that
\* is a list request, with the rows and columns displayed for it.
C5_ExportIsLatestRequest ==
    response.kind = "saved" =>
        /\ fresh
        /\ shown # <<>>
        /\ exported.content = ToCsv(shown[1])

\* C6: when the spec is empty after sanitization the ranking request aborts
\* with an error: no table is returned, no export file is written, and the
\* last-ranking cache keeps its value.  A step is a ranking request when it
\* is a call of rank_from_csv: the library call, or handle_input answering
\* with a ranking or raising.
C6_EmptySpecAborts ==
    [][((pc' = "returned" \/ response'.kind \in {"ranking", "raised"})
        /\ Sanitize(call'.raw, df) = <<>>)
       => /\ ret'.status = "RuntimeError"
          /\ ret'.table = NoTable
          /\ written' = written
          /\ exported' = exported
          /\ LAST_RANKED' = LAST_RANKED
          /\ LAST_SPEC' = LAST_SPEC
          /\ LAST_TOPN' = LAST_TOPN]_vars

\* A chat request with an empty spec has raised after an earlier ranking,
\* which is still in the cache.
C6_Witness ==
    /\ pc = "crashed" /\ response.kind = "raised"
    /\ Sanitize(call.raw, df) = <<>> /\ call.raw # <<>>
    /\ ret.status = "RuntimeError"
    /\ LAST_RANKED # <<>> /\ View(LAST_RANKED[1], LAST_TOPN[1]) = shown[1]

\* C7 as stated: when every attribute the spec names is absent from the
\* table, the ranker raises nothing, score_total is 0 and rank is 1 in
\* every row.
C7_Original ==
    (/\ pc = "returned"
     /\ call.raw # <<>>
     /\ \A e \in Range(call.raw) : e.isdict /\ ~HasCol(df, e.col))
    => /\ ret.status = "ok"
       /\ \A i \in 1..Len(Rows) : Score(i) = Zero /\ Rows[i]["rank"] = 1

\* C7 amended: an attribute absent from the table does not survive
\* sanitization; when every attribute the oracle names is absent the spec is
\* empty and the ranker aborts with the empty-spec error; otherwise an
\* absent attribute is not in the returned spec, contributes nothing to
\* score_total and produces no component column.
C7_AbsentAttributes ==
    pc = "returned" =>
        /\ (call.raw # <<>> /\ \A e \in Range(call.raw) : ~HasCol(df, e.col))
              => ret.status = "RuntimeError" /\ ret.table = NoTable
        /\ ret.status = "ok" =>
              \A e \in Range(call.raw) : ~HasCol(df, e.col) =>
                 /\ e.col \notin Range(PrefCols(ret.prefs))
                 /\ ~HasCol(ret.table, "score__" \o e.col)
                 /\ \A i \in 1..Len(Rows) :
                       Score(i) = WeightedSum(Rows[i], ret.prefs)

\* The oracle names only the absent attribute and the call has raised.
C7_Witness ==
    /\ pc = "returned" /\ Len(call.raw) = 1
    /\ call.raw[1].col = "esg" /\ call.raw[1].weight = One
    /\ ret.status = "RuntimeError"

\* C8 as stated: after rank, ticker, name, sector and score_total come all
\* remaining columns, the component columns included, in the order of the
\* working table (input columns, z columns, component columns).
C8_Original ==
    Ok => ret.table.cols =
            Front5
            \o SelectSeq(df.cols, LAMBDA c : c \notin Range(Front5))
            \o ZColsOf(ret.prefs) \o CompColsOf(ret.prefs)

\* C8 amended: after rank, ticker, name, sector (if the input has it) and
\* score_total come the component columns in the order of the spec, and
\* then the remaining columns in the order of the working table.
C8_ColumnOrder ==
    Ok => ret.table.cols =
            Front5 \o CompColsOf(ret.prefs)
            \o SelectSeq(df.cols, LAMBDA c : c \notin Range(Front5))
            \o ZColsOf(ret.prefs)

\* A sector-neutral ranking on two attributes of a table with sectors.
C8_Witness ==
    /\ Ok /\ call.neutral /\ HasCol(df, "sector")
    /\ PrefCols(ret.prefs) = <<"env_risk", "beta">>
    /\ Len(ret.table.cols) = 11

Computed(d) == normed[d] # <<>>

\* C9: every value _dirnorm returns lies in [0,1], and the NEGATIVE
\* direction exactly reverses the order of the POSITIVE one: for rows i, j
\* the POSITIVE value of i is below that of j iff the NEGATIVE value of i is
\* above that of j.
C9_RangeAndReversal ==
    /\ \A d \in {"positive", "negative"} : Computed(d) =>
          \A i \in 1..Len(series) :
             RLe(Zero, normed[d][i]) /\ RLe(normed[d][i], One)
    /\ (Computed("positive") /\ Computed("negative")) =>
          \A i, j \in 1..Len(series) :
             RLt(normed.positive[i], normed.positive[j])
               <=> RLt(normed.negative[j], normed.negative[i])

\* A column with an unparseable entry, imputed with the median, both ways.
C9_Witness ==
    /\ Computed("positive") /\ Computed("negative")
    /\ series = <<Num(0), Unparseable, Num(1)>>
    /\ normed.positive = <<Zero, Half, One>>
    /\ normed.negative = <<One, Half, Zero>>

AllSame == \A i \in 1..Len(series) : series[i][2] # 0 /\ series[i] = series[1]
AllMissing == \A i \in 1..Len(series) : series[i][2] = 0

\* C10: a column whose values are identical in every row, or whose entries
\* are all missing, normalizes to exactly 0.5 in every row, in both
\* directions.
C10_ConstantIsHalf ==
    (AllSame \/ AllMissing) =>
       \A d \in {"positive", "negative"} : Computed(d) =>
          \A i \in 1..Len(series) : normed[d][i] = Half

\* Three equal values, normalized both ways.
C10_Witness ==
    /\ series = <<Num(1), Num(1), Num(1)>>
    /\ normed.positive = <<Half, Half, Half>>
    /\ normed.negative = <<Half, Half, Half>>

Transformed == zs # <<>>
ConstantGroup == \A i \in 1..Len(group) : ~IsNaN(group[i]) /\ group[i] = group[1]

\* C11 as stated: every row of a sector whose attribute values are all
\* identical (a one-row sector included) gets the standardized value 0, so
\* all rows of the sector get the same value.
C11_ConstantSectorIsZero ==
    (Transformed /\ ConstantGroup) =>
        /\ \A i \in 1..Len(group) : zs[i] = Zero
        /\ \A i, j \in 1..Len(group) : zs[i] = zs[j]

\* C12 as stated: when the response holds a well-formed object surrounded by
\* extraneous text, the call ends as it does for the bare object (same
\* status, same spec, same table); it fails as a malformed response only
\* when the response holds no such object.
C12_ExtractsObject ==
    pc = "returned" =>
        /\ \A p \in Prefixes, b \in Bodies, s \in Suffixes :
              content = p \o b \o s =>
                 ret = Returned(RankText(df, b, call.neutral), MaxRows)
        /\ ret.status = "JSONDecodeError" =>
              ~\E p \in Prefixes, b \in Bodies, s \in Suffixes :
                   content = p \o b \o s

====
